---------------------------- MODULE Spec2Model ----------------------------
(***************************************************************************)
(* Vehicle lookup service (src/app.py): the retry decorator, the           *)
(* fetch-and-extract function get_vehicle_data, the GET /<reg> handler and *)
(* the POST /batch handler with its ThreadPoolExecutor.                    *)
(*                                                                         *)
(* A Python string is a sequence of tokens (TLA+ strings): a token is an   *)
(* atomic piece of text (a character of an identifier, a word, a comma, a  *)
(* blank, a marker).  split, replace, strip and upper act on tokens.       *)
(* A dict is the sequence of its <<key, value>> items in insertion order.  *)
(***************************************************************************)
EXTENDS Integers, Sequences, FiniteSets, TLC

VARIABLES
    request,    \* the HTTP request being served: method, reg (GET), body (POST)
    script,     \* script[i][k]: what the upstream answers to the k-th fetch of list entry i
    pc,         \* position of the request handler: "received", "running", "responded"
    regs,       \* the identifiers handed to get_vehicle_data, in list order
    tasks,      \* tasks[i]: the call get_vehicle_data(regs[i]), see NewTask
    resp,       \* the HTTP response
    wrapped     \* SpecRetry: the decorator's max_retries, and what each call of
                \* the function under it does (calls[k]: it returns or it raises)

vars == <<request, script, pc, regs, tasks, resp, wrapped>>

---------------------------------------------------------------------------
(* Bounds of the model *)

\* longest registrations list of the requests of Spec
MaxList == 2
\* length of the registrations lists of SpecPool
PoolLen == 11
\* longest registrations list of the requests of SpecLimit
MaxLen == 51
\* longest text of the summary node of the pages of SpecExtract, in tokens
MaxText == 5
\* most text nodes outside the summary node of the pages of SpecExtract
MaxNotes == 2
\* largest max_retries of the decorators of SpecRetry
MaxArg == 3

(* Constants of the program *)

max_retries == 3
max_workers == 10
MaxBatch == 50
HttpOk == 200

---------------------------------------------------------------------------
(* Strings *)

Blank == " "

UpperChar(c) ==
    CASE c = "a" -> "A"
      [] c = "b" -> "B"
      [] c = "x" -> "X"
      [] c = "y" -> "Y"
      [] OTHER -> c

\* the identifier as given
Upper_AsGiven(s) == s

\* str.upper()
Upper(s) == [k \in 1..Len(s) |-> UpperChar(s[k])]

\* str.replace(tok, '')
Remove(s, tok) == SelectSeq(s, LAMBDA c : c # tok)

RECURSIVE LStrip(_)
LStrip(s) == IF s # <<>> /\ Head(s) = Blank THEN LStrip(Tail(s)) ELSE s

RECURSIVE RStrip(_)
RStrip(s) ==
    IF s # <<>> /\ s[Len(s)] = Blank THEN RStrip(SubSeq(s, 1, Len(s) - 1)) ELSE s

\* str.strip()
Strip(s) == RStrip(LStrip(s))

\* index of the first token tok of s, 0 when there is none
IndexOf(s, tok) ==
    IF \E k \in 1..Len(s) : s[k] = tok
    THEN CHOOSE k \in 1..Len(s) : s[k] = tok /\ \A j \in 1..(k - 1) : s[j] # tok
    ELSE 0

\* str.split(sep): always at least one part
RECURSIVE Split(_, _)
Split(s, sep) ==
    LET k == IndexOf(s, sep) IN
    IF k = 0 THEN <<s>>
    ELSE <<SubSeq(s, 1, k - 1)>> \o Split(SubSeq(s, k + 1, Len(s)), sep)

\* str.split(sep, 1): at most two parts
SplitOnce(s, sep) ==
    LET k == IndexOf(s, sep) IN
    IF k = 0 THEN <<s>>
    ELSE <<SubSeq(s, 1, k - 1), SubSeq(s, k + 1, Len(s))>>

DigitChar(d) == <<"0", "1", "2", "3", "4", "5", "6", "7", "8", "9">>[d + 1]

\* str(n) of a natural number
RECURSIVE Digits(_)
Digits(n) ==
    IF n < 10 THEN <<DigitChar(n)>> ELSE Digits(n \div 10) \o <<DigitChar(n % 10)>>

---------------------------------------------------------------------------
(* Results of get_vehicle_data: a dict or None *)

None == [none |-> TRUE, items |-> <<>>]

Dict(items) == [none |-> FALSE, items |-> items]

ErrorResult(reason) == Dict(<< <<"error", reason>> >>)

Keys(r) == [k \in 1..Len(r.items) |-> r.items[k][1]]

RecordKeys == <<"reg", "make", "model", "fuel", "cc", "transmission">>

IsErrorResult(r) == ~r.none /\ Keys(r) = <<"error">>

IsVehicleRecord(r) ==
    /\ ~r.none
    /\ Len(r.items) >= Len(RecordKeys)
    /\ SubSeq(Keys(r), 1, Len(RecordKeys)) = RecordKeys
    /\ \A k \in 1..Len(r.items) : r.items[k][1] # "error"

\* Python truth value of a result: None and the empty dict are false
ResultTruthy(r) == ~r.none /\ r.items # <<>>

---------------------------------------------------------------------------
(* Identifiers.  A list entry of a batch request is any JSON value: a      *)
(* string (its tokens are its characters), a number or null.               *)

StrEntry(chars) == [type |-> "str", chars |-> chars]
IntEntry(n) == [type |-> "int", chars |-> Digits(n)]

Identifiers ==
    { StrEntry(<<"a", "b", "1">>), StrEntry(<<"A", "B", "1">>), StrEntry(<<"x", "y", "2">>) }

Entries == Identifiers \cup { IntEntry(5) }

---------------------------------------------------------------------------
(* The upstream: what one requests.get of the detail page ends with *)

Page(fault, node, text, notes) ==
    [fault |-> fault, node |-> node, text |-> text, notes |-> notes]

NoPage == Page(FALSE, FALSE, <<>>, <<>>)

\* requests.exceptions.Timeout
Timeout == [kind |-> "timeout", code |-> 0, page |-> NoPage]
\* any other exception of requests.get, such as a ConnectionError
ConnError == [kind |-> "connerr", code |-> 0, page |-> NoPage]
\* a response
Response(code, page) == [kind |-> "response", code |-> code, page |-> page]

RegisteredMarker == "Registered on:"
MotMarker == "MOT due on:"

\* "Ford Fiesta,Petrol,1200cc,Manual"
FullText == <<"Ford", " ", "Fiesta", ",", "Petrol", ",", "1200", "cc", ",", "Manual">>
\* " Land-Rover, Diesel ,2000cc, Auto ,4x4 "
LongText ==
    <<" ", "Land", "-", "Rover", ",", " ", "Diesel", " ", ",", "2000", "cc", ",",
      " ", "Auto", " ", ",", "4x4", " ">>
\* "Ford Fiesta,Petrol,1200cc"
ShortText == <<"Ford", " ", "Fiesta", ",", "Petrol", ",", "1200", "cc">>

RegisteredNote == <<" ", RegisteredMarker, " ", "01/03/2015", " ">>
MotNote == <<MotMarker, " ", "28/02/2026">>

PageFull == Page(FALSE, TRUE, FullText, <<>>)
PageDated == Page(FALSE, TRUE, LongText, <<RegisteredNote, MotNote>>)
PageShort == Page(FALSE, TRUE, ShortText, <<MotNote>>)
PageEmpty == Page(FALSE, FALSE, <<>>, <<RegisteredNote>>)
\* a page on which the parsing raises
PageFault == Page(TRUE, FALSE, <<>>, <<>>)

Outcomes ==
    { Timeout, ConnError, Response(404, NoPage), Response(503, PageFull),
      Response(HttpOk, PageFull), Response(HttpOk, PageDated), Response(HttpOk, PageShort),
      Response(HttpOk, PageEmpty), Response(HttpOk, PageFault) }

\* the fetch fails at transport level: timeout, connection error, non-200 status
TransportFailure(o) == o.kind # "response" \/ o.code # HttpOk

---------------------------------------------------------------------------
(* get_vehicle_data, the function under the decorator: what one call does  *)
(* with the upstream's answer o.  It ends by returning a value, or by      *)
(* raising (raised).  extracted counts the runs of the extractor.          *)

Return(value, extracted) ==
    [raised |-> FALSE, value |-> value, exc |-> "", extracted |-> extracted]

Raise(exc, extracted) ==
    [raised |-> TRUE, value |-> None, exc |-> exc, extracted |-> extracted]

\* except Exception as e: return {"error": f"Processing error: {str(e)}"}
ProcessingError(detail) == ErrorResult(<<"Processing error: ", detail>>)

\* the search looking at the first text node only
FindNote_FirstOnly(notes, marker) ==
    IF notes # <<>> /\ (\E k \in 1..Len(Head(notes)) : Head(notes)[k] = marker)
    THEN <<Head(notes)>>
    ELSE <<>>

\* soup.find(string=lambda text: marker in text): the first text node holding marker
FindNote(notes, marker) ==
    LET hits == SelectSeq(notes, LAMBDA n : \E k \in 1..Len(n) : n[k] = marker) IN
    IF hits = <<>> THEN <<>> ELSE <<Head(hits)>>

\* element.strip().replace(marker, "").strip()
NoteDate(note, marker) == Strip(Remove(Strip(note), marker))

DateItems(notes) ==
    LET reg_date_element == FindNote(notes, RegisteredMarker)
        mot_date_element == FindNote(notes, MotMarker)
    IN  (IF reg_date_element = <<>> THEN <<>>
         ELSE << <<"registered_on", NoteDate(reg_date_element[1], RegisteredMarker)>> >>)
        \o
        (IF mot_date_element = <<>> THEN <<>>
         ELSE << <<"mot_expiry", NoteDate(mot_date_element[1], MotMarker)>> >>)

\* the extraction asking for five parts
Extract_FiveParts(reg, page) ==
    IF page.fault THEN Raise("ParserError", 1)
    ELSE IF ~page.node THEN Return(ErrorResult(<<"No data found">>), 1)
    ELSE
        LET vehicle_text == Strip(page.text)
            vehicle_parts == Split(vehicle_text, ",")
        IN
        IF Len(vehicle_parts) < 5 THEN Return(ErrorResult(<<"Incomplete data found">>), 1)
        ELSE
            LET split == SplitOnce(Strip(Remove(vehicle_parts[1], "-")), Blank)
                make_model == IF Len(split) < 2 THEN Append(split, <<>>) ELSE split
            IN
            IF reg.type # "str" THEN Raise("AttributeError", 1)
            ELSE Return(Dict(<< <<"reg", Upper(reg.chars)>>,
                               <<"make", make_model[1]>>,
                               <<"model", make_model[2]>>,
                               <<"fuel", Strip(vehicle_parts[2])>>,
                               <<"cc", Strip(Remove(vehicle_parts[3], "cc"))>>,
                               <<"transmission", Strip(vehicle_parts[4])>> >>
                             \o DateItems(page.notes)), 1)

\* lines 70-113: the extraction from the page of a 200 response
Extract(reg, page) ==
    IF page.fault THEN Raise("ParserError", 1)
    ELSE IF ~page.node THEN Return(ErrorResult(<<"No data found">>), 1)
    ELSE
        LET vehicle_text == Strip(page.text)
            vehicle_parts == Split(vehicle_text, ",")
        IN
        IF Len(vehicle_parts) < 4 THEN Return(ErrorResult(<<"Incomplete data found">>), 1)
        ELSE
            LET split == SplitOnce(Strip(Remove(vehicle_parts[1], "-")), Blank)
                make_model == IF Len(split) < 2 THEN Append(split, <<>>) ELSE split
            IN
            \* reg.upper() of an entry that is no string raises AttributeError
            IF reg.type # "str" THEN Raise("AttributeError", 1)
            ELSE Return(Dict(<< <<"reg", Upper(reg.chars)>>,
                               <<"make", make_model[1]>>,
                               <<"model", make_model[2]>>,
                               <<"fuel", Strip(vehicle_parts[2])>>,
                               <<"cc", Strip(Remove(vehicle_parts[3], "cc"))>>,
                               <<"transmission", Strip(vehicle_parts[4])>> >>
                             \o DateItems(page.notes)), 1)

\* lines 63-113: the body of the try statement
TryBody(reg, o) ==
    IF o.kind = "timeout" THEN Raise("Timeout", 0)
    ELSE IF o.kind = "connerr" THEN Raise("ConnectionError", 0)
    ELSE IF o.code # HttpOk
         THEN Return(ErrorResult(<<"HTTP Error: ">> \o Digits(o.code)), 0)
    ELSE Extract(reg, o.page)

\* the except clauses without the catch-all: any other exception leaves the function
ExceptClauses_NoCatchAll(r) ==
    IF r.exc = "Timeout" THEN Return(ErrorResult(<<"Request timed out">>), r.extracted)
    ELSE r

\* the except clauses re-raising what they caught
ExceptClauses_Reraise(r) == r

\* lines 115-120: the except clauses
ExceptClauses(r) ==
    IF r.exc = "Timeout" THEN Return(ErrorResult(<<"Request timed out">>), r.extracted)
    ELSE Return(ProcessingError(r.exc), r.extracted)

\* get_vehicle_data raising every failure, for the decorator to retry
get_vehicle_data_Raising(reg, o) ==
    LET r == TryBody(reg, o) IN
    IF ~r.raised /\ IsErrorResult(r.value) THEN Raise("LookupError", r.extracted) ELSE r

get_vehicle_data(reg, o) ==
    LET r == TryBody(reg, o) IN
    IF r.raised THEN ExceptClauses(r) ELSE r

---------------------------------------------------------------------------
(* retry(max_retries, delay): one call of the decorated function.  st is   *)
(* "queued" (a work item of the executor not yet picked up), "running"     *)
(* (inside the while loop), "returned" or "raised".  fetches, sleeps and   *)
(* extracts count the requests.get calls, the time.sleep(delay) calls and  *)
(* the runs of the extractor.                                              *)

NewTask(st) ==
    [st |-> st, retries |-> 0, fetches |-> 0, sleeps |-> 0, extracts |-> 0,
     result |-> None, exc |-> ""]

Finished(t) == t.st \in {"returned", "raised"}

\* the iteration swallowing the last failure: it does not re-raise
RetryIteration_SwallowLast(t, maxr, r) ==
    IF ~(t.retries < maxr) THEN [t EXCEPT !.st = "returned", !.result = None]
    ELSE
        LET called == [t EXCEPT !.fetches = @ + 1, !.extracts = @ + r.extracted] IN
        IF ~r.raised THEN [called EXCEPT !.st = "returned", !.result = r.value]
        ELSE IF t.retries + 1 >= maxr THEN [called EXCEPT !.retries = @ + 1]
        ELSE [called EXCEPT !.retries = @ + 1, !.sleeps = @ + 1]

\* the iteration giving up one failure late
RetryIteration_OffByOne(t, maxr, r) ==
    IF ~(t.retries < maxr + 1) THEN [t EXCEPT !.st = "returned", !.result = None]
    ELSE
        LET called == [t EXCEPT !.fetches = @ + 1, !.extracts = @ + r.extracted] IN
        IF ~r.raised THEN [called EXCEPT !.st = "returned", !.result = r.value]
        ELSE IF t.retries + 1 >= maxr + 1
             THEN [called EXCEPT !.retries = @ + 1, !.st = "raised", !.exc = r.exc]
        ELSE [called EXCEPT !.retries = @ + 1, !.sleeps = @ + 1]

\* lines 34-44: one iteration of the while loop of decorated_function, r being
\* what the call f(*args, **kwargs) of this iteration does; fetches counts the calls
RetryIteration(t, maxr, r) ==
    IF ~(t.retries < maxr) THEN [t EXCEPT !.st = "returned", !.result = None]
    ELSE
        LET called == [t EXCEPT !.fetches = @ + 1, !.extracts = @ + r.extracted] IN
        IF ~r.raised THEN [called EXCEPT !.st = "returned", !.result = r.value]
        ELSE IF t.retries + 1 >= maxr
             THEN [called EXCEPT !.retries = @ + 1, !.st = "raised", !.exc = r.exc]
        ELSE [called EXCEPT !.retries = @ + 1, !.sleeps = @ + 1]

\* the iteration with get_vehicle_data under the decorator;
\* answers[k] is the upstream's answer to the k-th fetch
decorated_function(t, maxr, reg, answers) ==
    RetryIteration(t, maxr, get_vehicle_data(reg, answers[t.fetches + 1]))

\* the call run to its end
RECURSIVE RunToEnd(_, _, _, _)
RunToEnd(t, maxr, reg, answers) ==
    IF Finished(t) THEN t
    ELSE RunToEnd(decorated_function(t, maxr, reg, answers), maxr, reg, answers)

---------------------------------------------------------------------------
(* JSON values of a request body, as request.get_json() returns them *)

JVal(type, num, text, keys, list) ==
    [type |-> type, num |-> num, text |-> text, keys |-> keys, list |-> list]

JNull == JVal("null", 0, <<>>, {}, <<>>)
JNum(n) == JVal("number", n, <<>>, {}, <<>>)
JStr(text) == JVal("string", 0, text, {}, <<>>)
JObj(keys) == JVal("object", 0, <<>>, keys, <<>>)
JList(list) == JVal("list", 0, <<>>, {}, list)

\* Python truth value: None, 0, "", [] and {} are false
Truthy(v) ==
    CASE v.type = "null" -> FALSE
      [] v.type = "number" -> v.num # 0
      [] v.type = "string" -> v.text # <<>>
      [] v.type = "object" -> v.keys # {}
      [] v.type = "list" -> v.list # <<>>

RegistrationsKey == "registrations"

\* key in v, for the values on which the operator is defined
Contains(v, key) ==
    CASE v.type = "object" -> key \in v.keys
      [] v.type = "list" ->
            \E k \in 1..Len(v.list) : v.list[k] = StrEntry(<<key>>)
      [] v.type = "string" -> \E k \in 1..Len(v.text) : v.text[k] = key
      [] OTHER -> FALSE

\* a body: the JSON value, and the value under its registrations key (if it has one)
Body(json, registrations) == [json |-> json, registrations |-> registrations]

ListsUpTo(S, n) == UNION { [1..k -> S] : k \in 0..n }

\* values of the registrations key that are no list
OtherRegistrations ==
    { JNull, JNum(0), JNum(7), JStr(<<>>), JStr(<<"a", "b", "1">>), JObj({}), JObj({"a"}) }

\* bodies whose registrations value is no list, or that have no such key
OtherBodies ==
    { Body(JObj({RegistrationsKey}), v) : v \in OtherRegistrations }
    \cup { Body(JObj({RegistrationsKey, "limit"}), JList(<<>>)) }
    \cup { Body(j, JNull) :
             j \in { JObj({}), JObj({"regs"}), JNull, JNum(0), JNum(5), JStr(<<>>),
                     JStr(<<RegistrationsKey>>), JList(<<>>),
                     JList(<<StrEntry(<<RegistrationsKey>>)>>),
                     JList(<<StrEntry(<<"a", "b", "1">>)>>) } }

ListBody(list) == Body(JObj({RegistrationsKey}), JList(list))

Get(reg) == [method |-> "GET", reg |-> reg, body |-> Body(JNull, JNull)]
Post(body) == [method |-> "POST", reg |-> StrEntry(<<>>), body |-> body]

---------------------------------------------------------------------------
(* Responses *)

NoResponse == [status |-> 0, kind |-> "none", body |-> None, map |-> <<>>]

\* jsonify(dict), status
Json(status, body) == [status |-> status, kind |-> "json", body |-> body, map |-> <<>>]

\* jsonify(response) of the batch: the mapping from key to result
JsonMap(map) == [status |-> 200, kind |-> "map", body |-> None, map |-> map]

\* an exception that leaves the handler: the server answers 500
ServerError == [status |-> 500, kind |-> "html", body |-> None, map |-> <<>>]

InvalidRequest == <<"Invalid request. Please provide a list of registrations.">>
InvalidList == <<"Please provide a valid list of registrations.">>
TooLarge == <<"Batch size too large. Maximum 50 registrations per request.">>

---------------------------------------------------------------------------
(* batch_lookup *)

Accept(list) == [accepted |-> TRUE, list |-> list, resp |-> NoResponse]
Reject(r) == [accepted |-> FALSE, list |-> <<>>, resp |-> r]

\* the size check off by one
TooManyEntries_AtLeast(list) == Len(list) >= MaxBatch

\* line 140: len(registrations) > 50
TooManyEntries(list) == Len(list) > MaxBatch

\* lines 131-141: the checks on the body
Validation(body) ==
    LET data == body.json
        registrations == body.registrations
    IN
    IF ~Truthy(data) THEN Reject(Json(400, ErrorResult(InvalidRequest)))
    \* 'registrations' in data of a number: TypeError
    ELSE IF data.type = "number" THEN Reject(ServerError)
    ELSE IF ~Contains(data, RegistrationsKey)
         THEN Reject(Json(400, ErrorResult(InvalidRequest)))
    \* data['registrations'] of a string or of a list: TypeError
    ELSE IF data.type # "object" THEN Reject(ServerError)
    ELSE IF ~Truthy(registrations) \/ registrations.type # "list"
         THEN Reject(Json(400, ErrorResult(InvalidList)))
    ELSE IF TooManyEntries(registrations.list)
         THEN Reject(Json(400, ErrorResult(TooLarge)))
    ELSE Accept(registrations.list)

\* the comprehension keeping the first value of a key
RECURSIVE Comprehension_FirstWins(_, _, _)
Comprehension_FirstWins(rs, results, n) ==
    IF n = 0 THEN [k \in {} |-> None]
    ELSE LET m == Comprehension_FirstWins(rs, results, n - 1)
             key == Upper(rs[n].chars)
         IN  [k \in DOMAIN m \cup {key} |-> IF k \in DOMAIN m THEN m[k] ELSE results[n]]

\* line 148: {reg.upper(): result for reg, result in zip(registrations, results)},
\* over the first n entries; a later entry overwrites the value of its key
RECURSIVE Comprehension(_, _, _)
Comprehension(rs, results, n) ==
    IF n = 0 THEN [k \in {} |-> None]
    ELSE LET m == Comprehension(rs, results, n - 1)
             key == Upper(rs[n].chars)
         IN  [k \in DOMAIN m \cup {key} |-> IF k = key THEN results[n] ELSE m[k]]

\* lines 145-149: the results in list order, and the response
BatchResponse(rs, ts) ==
    \* list(executor.map(...)) raises what a call raised
    IF \E i \in 1..Len(ts) : ts[i].st = "raised" THEN ServerError
    \* reg.upper() of an entry that is no string: AttributeError
    ELSE IF \E i \in 1..Len(rs) : rs[i].type # "str" THEN ServerError
    ELSE JsonMap(Comprehension(rs, [i \in 1..Len(ts) |-> ts[i].result], Len(rs)))

\* vehicle_lookup answering a lookup that ended with an error as a gateway failure
LookupResponse_ErrorStatus(t) ==
    IF t.st = "raised" THEN ServerError
    ELSE IF IsErrorResult(t.result) \/ ~ResultTruthy(t.result)
         THEN Json(502, ErrorResult(<<"No data found">>))
    ELSE Json(200, t.result)

\* lines 122-126
LookupResponse(t) ==
    IF t.st = "raised" THEN ServerError
    ELSE Json(200, IF ResultTruthy(t.result) THEN t.result
                   ELSE ErrorResult(<<"No data found">>))

Running == { i \in 1..Len(tasks) : tasks[i].st = "running" }

---------------------------------------------------------------------------
(* Actions *)

\* GET /<reg>: vehicle_lookup calls get_vehicle_data(reg) on the request's thread
LookupCall ==
    /\ pc = "received"
    /\ request.method = "GET"
    /\ regs' = <<request.reg>>
    /\ tasks' = <<NewTask("running")>>
    /\ pc' = "running"
    /\ UNCHANGED <<wrapped, request, script, resp>>

\* a call that ends with an error cancels the work items still queued
Attempt_FailFast(i) ==
    /\ pc = "running"
    /\ tasks[i].st = "running"
    /\ LET t == decorated_function(tasks[i], max_retries, regs[i], script[i]) IN
       tasks' = [j \in 1..Len(tasks) |->
                   IF j = i THEN t
                   ELSE IF IsErrorResult(t.result) /\ tasks[j].st = "queued"
                        THEN [tasks[j] EXCEPT !.st = "returned"]
                   ELSE tasks[j]]
    /\ UNCHANGED <<wrapped, request, script, pc, regs, resp>>

\* one iteration of the retry loop of the call for entry i
Attempt(i) ==
    /\ pc = "running"
    /\ tasks[i].st = "running"
    /\ tasks' = [tasks EXCEPT ![i] = decorated_function(@, max_retries, regs[i], script[i])]
    /\ UNCHANGED <<wrapped, request, script, pc, regs, resp>>

\* get_vehicle_data tabulated: what it returns for every entry and every answer
LookupTable == [e \in Entries, o \in Outcomes |-> get_vehicle_data(e, o)]

\* Attempt(i), get_vehicle_data read from its table
AttemptLive(i) ==
    /\ pc = "running"
    /\ tasks[i].st = "running"
    /\ tasks' = [tasks EXCEPT ![i] =
                    RetryIteration(@, max_retries,
                                   LookupTable[regs[i], script[i][@.fetches + 1]])]
    /\ UNCHANGED <<wrapped, request, script, pc, regs, resp>>

\* vehicle_lookup returns
LookupRespond ==
    /\ pc = "running"
    /\ request.method = "GET"
    /\ Finished(tasks[1])
    /\ resp' = LookupResponse(tasks[1])
    /\ pc' = "responded"
    /\ UNCHANGED <<wrapped, request, script, regs, tasks>>

\* the calls submitted before the checks
BatchSubmit_LaunchFirst ==
    /\ pc = "received"
    /\ request.method = "POST"
    /\ LET v == Validation(request.body)
           list == IF request.body.registrations.type = "list"
                   THEN request.body.registrations.list ELSE <<>>
       IN
       /\ regs' = list
       /\ tasks' = [i \in 1..Len(list) |-> NewTask("queued")]
       /\ IF v.accepted
          THEN pc' = "running" /\ resp' = resp
          ELSE pc' = "responded" /\ resp' = v.resp
    /\ UNCHANGED <<wrapped, request, script>>

\* POST /batch: the checks, and executor.map submitting one call per entry
BatchSubmit ==
    /\ pc = "received"
    /\ request.method = "POST"
    /\ LET v == Validation(request.body) IN
       IF v.accepted
       THEN /\ regs' = v.list
            /\ tasks' = [i \in 1..Len(v.list) |-> NewTask("queued")]
            /\ pc' = "running"
            /\ resp' = resp
       ELSE /\ resp' = v.resp
            /\ pc' = "responded"
            /\ regs' = regs
            /\ tasks' = tasks
    /\ UNCHANGED <<wrapped, request, script>>

\* a pool that starts a thread for every work item
StartWorker_Unbounded(i) ==
    /\ pc = "running"
    /\ request.method = "POST"
    /\ tasks[i].st = "queued"
    /\ \A j \in 1..(i - 1) : tasks[j].st # "queued"
    /\ tasks' = [tasks EXCEPT ![i].st = "running"]
    /\ UNCHANGED <<wrapped, request, script, pc, regs, resp>>

\* a free worker of the pool takes the first work item of the queue
StartWorker(i) ==
    /\ pc = "running"
    /\ request.method = "POST"
    /\ tasks[i].st = "queued"
    /\ \A j \in 1..(i - 1) : tasks[j].st # "queued"
    /\ Cardinality(Running) < max_workers
    /\ tasks' = [tasks EXCEPT ![i].st = "running"]
    /\ UNCHANGED <<wrapped, request, script, pc, regs, resp>>

\* the response built as soon as one call has ended
BatchRespond_Partial ==
    /\ pc = "running"
    /\ request.method = "POST"
    /\ \E i \in 1..Len(tasks) : Finished(tasks[i])
    /\ resp' = BatchResponse(regs, tasks)
    /\ pc' = "responded"
    /\ UNCHANGED <<wrapped, request, script, regs, tasks>>

\* every call has ended: the results are collected and the response is built
BatchRespond ==
    /\ pc = "running"
    /\ request.method = "POST"
    /\ \A i \in 1..Len(tasks) : Finished(tasks[i])
    /\ resp' = BatchResponse(regs, tasks)
    /\ pc' = "responded"
    /\ UNCHANGED <<wrapped, request, script, regs, tasks>>

\* batch_lookup as one step, its calls run one after the other
BatchLookup ==
    /\ pc = "received"
    /\ request.method = "POST"
    /\ LET v == Validation(request.body)
           ts == [i \in 1..Len(v.list) |->
                    RunToEnd(NewTask("running"), max_retries, v.list[i], script[i])]
       IN
       /\ regs' = v.list
       /\ tasks' = ts
       /\ resp' = IF v.accepted THEN BatchResponse(v.list, ts) ELSE v.resp
    /\ pc' = "responded"
    /\ UNCHANGED <<wrapped, request, script>>

\* the decorated function is called: retries = 0 (line 33)
WrappedCall ==
    /\ pc = "received"
    /\ request.method = "CALL"
    /\ tasks' = <<NewTask("running")>>
    /\ pc' = "running"
    /\ UNCHANGED <<wrapped, request, script, regs, resp>>

\* one iteration of the retry loop around the operation of wrapped
WrappedAttempt ==
    /\ pc = "running"
    /\ request.method = "CALL"
    /\ tasks[1].st = "running"
    /\ tasks' = <<RetryIteration(tasks[1], wrapped.max_retries,
                                 wrapped.calls[tasks[1].fetches + 1])>>
    /\ UNCHANGED <<wrapped, request, script, pc, regs, resp>>

---------------------------------------------------------------------------
(* Specifications *)

Scripts == [1..max_retries -> Outcomes]

\* the scripts of the entries of a batch
BatchScripts ==
    { <<Timeout, Timeout, Response(HttpOk, PageFull)>>,
      <<Response(HttpOk, PageDated), Response(HttpOk, PageDated), Response(HttpOk, PageDated)>>,
      <<Response(503, PageFull), Response(503, PageFull), Response(HttpOk, PageFull)>>,
      <<Response(HttpOk, PageShort), Response(HttpOk, PageFull), Response(HttpOk, PageFull)>> }

\* @retry(max_retries=3, delay=1) on get_vehicle_data
Decorator == [max_retries |-> max_retries, calls |-> <<>>]

Start ==
    /\ pc = "received"
    /\ regs = <<>>
    /\ tasks = <<>>
    /\ resp = NoResponse
    /\ wrapped = Decorator

\* one request: a single lookup, or a batch of at most MaxList entries, or a
\* batch of one entry more than the limit
Init ==
    /\ \/ /\ request \in { Get(r) : r \in Identifiers }
          /\ script \in [1..1 -> Scripts]
       \/ /\ request \in { Post(b) : b \in OtherBodies }
          /\ script = <<>>
       \/ \E list \in ListsUpTo(Entries, MaxList) :
             /\ request = Post(ListBody(list))
             /\ script \in [1..Len(list) -> BatchScripts]
       \/ \E e \in Entries, s \in BatchScripts :
             /\ request = Post(ListBody([i \in 1..(MaxBatch + 1) |-> e]))
             /\ script = [i \in 1..(MaxBatch + 1) |-> s]
    /\ Start

Next ==
    \/ LookupCall
    \/ \E i \in 1..Len(tasks) : Attempt(i)
    \/ LookupRespond
    \/ BatchSubmit
    \/ \E i \in 1..Len(tasks) : StartWorker(i)
    \/ BatchRespond

Spec == Init /\ [][Next]_vars

\* one batch of PoolLen entries, more than the pool has workers
InitPool ==
    /\ \E a \in Identifiers, s \in BatchScripts :
          /\ request = Post(ListBody([i \in 1..PoolLen |->
                              IF i % 2 = 1 THEN a ELSE StrEntry(<<"x", "y", "2">>)]))
          /\ script = [i \in 1..PoolLen |->
                         IF i % 2 = 1 THEN s
                         ELSE <<Response(HttpOk, PageEmpty), Timeout, Timeout>>]
    /\ Start

NextPool ==
    \/ BatchSubmit
    \/ \E i \in 1..Len(tasks) : StartWorker(i)
    \/ \E i \in 1..Len(tasks) : Attempt(i)
    \/ BatchRespond

SpecPool == InitPool /\ [][NextPool]_vars

\* the scripts of the entries of the batches of SpecLive
LiveScripts ==
    { [k \in 1..max_retries |-> o] :
        o \in { Timeout, Response(HttpOk, PageEmpty), Response(HttpOk, PageDated) } }

\* one batch of at most MaxList entries
InitLive ==
    /\ \E list \in ListsUpTo({ StrEntry(<<"a", "b", "1">>), IntEntry(5) }, MaxList) :
          /\ request = Post(ListBody(list))
          /\ script \in [1..Len(list) -> LiveScripts]
    /\ Start

NextLive ==
    \/ BatchSubmit
    \/ \E i \in 1..Len(tasks) : StartWorker(i)
    \/ \E i \in 1..Len(tasks) : AttemptLive(i)
    \/ BatchRespond

\* the batch with a step being taken as long as one is possible: every fetch
\* ends, and the threads of the handler and of the pool keep being scheduled
SpecLive == InitLive /\ [][NextLive]_vars /\ WF_vars(NextLive)

\* one batch of up to MaxLen times the same entry
InitLimit ==
    /\ \E n \in 0..MaxLen, e \in Entries, s \in BatchScripts :
          /\ request = Post(ListBody([i \in 1..n |-> e]))
          /\ script = [i \in 1..n |-> s]
    /\ Start

NextLimit == BatchLookup

SpecLimit == InitLimit /\ [][NextLimit]_vars

\* the tokens of the texts of the summary node
TextTokens == { ",", Blank, "Ford", "cc", "-" }

\* a text node with neither marker, and one with both
PlainNote == <<"Tax due:", " ", "01/04/2026">>
BothNote == <<RegisteredMarker, " ", "01/03/2015", " ", MotMarker, " ", "28/02/2026">>

Notes == { RegisteredNote, MotNote, PlainNote, BothNote }

\* the pages of 200 responses that parse: every text of up to MaxText tokens in
\* the summary node, and every list of up to MaxNotes other text nodes
ExtractPages ==
    { Page(FALSE, TRUE, t, n) :
        t \in ListsUpTo(TextTokens, MaxText), n \in { <<>>, <<MotNote, RegisteredNote>> } }
    \cup
    { Page(FALSE, node, t, n) :
        node \in BOOLEAN, t \in { FullText, LongText, ShortText },
        n \in ListsUpTo(Notes, MaxNotes) }

\* one single lookup, the upstream answering 200 with a page of ExtractPages
InitExtract ==
    /\ \E r \in Identifiers, page \in ExtractPages :
          /\ request = Get(r)
          /\ script = << [k \in 1..max_retries |-> Response(HttpOk, page)] >>
    /\ Start

NextExtract ==
    \/ LookupCall
    \/ \E i \in 1..Len(tasks) : Attempt(i)
    \/ LookupRespond

SpecExtract == InitExtract /\ [][NextExtract]_vars

\* what a call of an operation under the decorator does: it returns a value
\* (None is one) or it raises
CallOutcomes ==
    { Return(None, 0), Return(Dict(<< <<"value", <<"1">>>> >>), 0),
      Raise("Timeout", 0), Raise("ValueError", 0) }

\* a call of a decorated function, outside any request
Call == [method |-> "CALL", reg |-> StrEntry(<<>>), body |-> Body(JNull, JNull)]

\* retry(max_retries=n, delay) around an operation, for every n up to MaxArg and
\* everything its calls can do, one call more than the wrapper may make
InitRetry ==
    /\ \E n \in (0 - 1)..MaxArg :
          \E calls \in [1..(IF n < 1 THEN 1 ELSE n + 1) -> CallOutcomes] :
              wrapped = [max_retries |-> n, calls |-> calls]
    /\ request = Call
    /\ script = <<>>
    /\ pc = "received"
    /\ regs = <<>>
    /\ tasks = <<>>
    /\ resp = NoResponse

NextRetry ==
    \/ WrappedCall
    \/ WrappedAttempt

SpecRetry == InitRetry /\ [][NextRetry]_vars

---------------------------------------------------------------------------
(* Properties *)

IsGet == request.method = "GET"
IsPost == request.method = "POST"

\* the call get_vehicle_data(reg) alone, the upstream answering as in answers
Alone(reg, answers) == RunToEnd(NewTask("running"), max_retries, reg, answers)

\* the registrations list of the body, <<>> when the body has none
BodyList == request.body.registrations.list

HasRegistrationsKey ==
    request.body.json.type = "object" /\ RegistrationsKey \in request.body.json.keys

\* the body has the registrations key and its value is a non-empty list
NonEmptyList ==
    HasRegistrationsKey /\ request.body.registrations.type = "list" /\ BodyList # <<>>

\* the extraction of the page fails: no summary node, or fewer than 4 parts
ContentFault(o) ==
    /\ ~TransportFailure(o)
    /\ ~o.page.fault
    /\ ~o.page.node \/ Len(Split(Strip(o.page.text), ",")) < 4

\* C1: every call of the single-record pipeline that has ended has returned
\* (it has not raised), and what it returned is not None and is exactly one of
\* a VehicleRecord and an ErrorResult.
C1_ExactlyOneResult ==
    \A i \in 1..Len(tasks) :
        /\ tasks[i].st # "raised"
        /\ tasks[i].st = "returned" =>
              /\ ~tasks[i].result.none
              /\ IsVehicleRecord(tasks[i].result) # IsErrorResult(tasks[i].result)

\* a lookup whose page made the parsing raise has ended with an ErrorResult
C1_Witness ==
    /\ IsGet
    /\ pc = "responded"
    /\ script[1][1] = Response(HttpOk, PageFault)
    /\ IsErrorResult(tasks[1].result)

\* C2: when the fetch fails at transport level on attempts 1 and 2 and succeeds
\* on attempt 3, the lookup returns what an immediate success would have
\* returned, after exactly 3 fetches and exactly 2 retry delays.
C2_RetryThenSuccess ==
    \A i \in 1..Len(tasks) :
        ( /\ Finished(tasks[i])
          /\ TransportFailure(script[i][1])
          /\ TransportFailure(script[i][2])
          /\ ~TransportFailure(script[i][3]) )
        => /\ tasks[i].st = "returned"
           /\ tasks[i].result = Alone(regs[i], <<script[i][3]>>).result
           /\ tasks[i].fetches = 3
           /\ tasks[i].sleeps = 2

\* C3: when every fetch of an identifier fails at transport level, the fetch
\* is attempted 3 times and the call then returns the ErrorResult naming the
\* failure: "Request timed out" or "HTTP Error: <code>".
C3_RetriesExhausted ==
    \A i \in 1..Len(tasks) :
        ( /\ Finished(tasks[i])
          /\ \A k \in 1..max_retries : TransportFailure(script[i][k]) )
        => /\ tasks[i].fetches = 3
           /\ tasks[i].st = "returned"
           /\ script[i][3].kind = "timeout" =>
                 tasks[i].result = ErrorResult(<<"Request timed out">>)
           /\ script[i][3].kind = "response" =>
                 tasks[i].result = ErrorResult(<<"HTTP Error: ">> \o Digits(script[i][3].code))

\* C4: when the first fetch is a 200 whose page has no summary node or fewer
\* than 4 parts, the call returns "No data found" / "Incomplete data found" after
\* exactly one fetch, no retry delay and one run of the extractor.
C4_ContentFaultNoRetry ==
    \A i \in 1..Len(tasks) :
        (Finished(tasks[i]) /\ ContentFault(script[i][1]))
        => /\ tasks[i].st = "returned"
           /\ tasks[i].result =
                 IF script[i][1].page.node THEN ErrorResult(<<"Incomplete data found">>)
                 ELSE ErrorResult(<<"No data found">>)
           /\ tasks[i].fetches = 1
           /\ tasks[i].sleeps = 0
           /\ tasks[i].extracts = 1

\* a lookup of a page with 3 parts has ended, the later answers being full pages
C4_Witness ==
    /\ IsGet
    /\ pc = "responded"
    /\ script[1] = <<Response(HttpOk, PageShort), Response(HttpOk, PageFull),
                     Response(HttpOk, PageFull)>>
    /\ tasks[1].result = ErrorResult(<<"Incomplete data found">>)

\* C5: a batch request whose body has no registrations key, or whose
\* registrations value is not a non-empty list, is answered 400 with an
\* {"error": ...} body.
C5_InvalidShape400 ==
    (IsPost /\ pc = "responded" /\ ~NonEmptyList)
    => resp.status = 400 /\ resp.kind = "json" /\ IsErrorResult(resp.body)

\* C6: a list of 51 or more entries is answered 400 with the size-limit error
\* and no call is made; a list of exactly 50 entries is not rejected and one
\* call per entry has run, the answer being 200 when the entries are strings.
C6_LimitIsFifty ==
    (IsPost /\ pc = "responded" /\ NonEmptyList)
    => /\ Len(BodyList) >= 51 =>
             resp = Json(400, ErrorResult(TooLarge)) /\ tasks = <<>>
       /\ Len(BodyList) = 50 =>
             /\ resp.status # 400
             /\ Len(tasks) = 50
             /\ \A i \in 1..50 : tasks[i].st = "returned" /\ tasks[i].fetches >= 1
             /\ (\A i \in 1..50 : BodyList[i].type = "str") =>
                    resp.status = 200 /\ resp.kind = "map"

\* a list of 50 identifiers has been answered 200
C6_Witness ==
    /\ IsPost
    /\ pc = "responded"
    /\ Len(BodyList) = 50
    /\ Len(tasks) = 50
    /\ resp.status = 200

\* C7: at every moment at most 10 calls are in flight, and a queued call
\* starts only while fewer than 10 are in flight.
C7_AtMostTenInFlight ==
    /\ [](Cardinality(Running) <= 10)
    /\ [][\A i \in 1..Len(tasks) :
            (tasks[i].st = "queued" /\ tasks'[i].st = "running")
            => Cardinality(Running) < 10]_vars

\* 10 calls are in flight and the 11th entry waits in the queue
C7_Witness ==
    /\ Len(tasks) > 10
    /\ Cardinality(Running) = 10
    /\ \E i \in 1..Len(tasks) : tasks[i].st = "queued"

\* C8: in a batch, in every order of the workers' steps, every call that has
\* ended has the outcome (result, and counts of fetches, retry delays and
\* extractions) of the same call made alone: no failure of another entry
\* changes it, lengthens it or cancels it.
C8_Independent ==
    IsPost =>
        \A i \in 1..Len(tasks) :
            Finished(tasks[i]) => tasks[i] = Alone(regs[i], script[i])

\* of two entries, the first has ended with an extraction failure and the
\* second with a record
C8_Witness ==
    /\ IsPost
    /\ Len(tasks) = 2
    /\ Finished(tasks[1])
    /\ tasks[1].result = ErrorResult(<<"Incomplete data found">>)
    /\ Finished(tasks[2])
    /\ IsVehicleRecord(tasks[2].result)

\* the last entry of the list whose upper-cased identifier is key
LastEntry(key) ==
    CHOOSE i \in 1..Len(regs) :
        /\ Upper(regs[i].chars) = key
        /\ \A j \in (i + 1)..Len(regs) : Upper(regs[j].chars) # key

\* C9: an accepted batch of strings is answered with the mapping whose keys
\* are exactly the upper-cased entries, each key holding the result of the
\* last entry of the list that upper-cases to it.
C9_LastWriteWins ==
    (IsPost /\ pc = "responded" /\ regs # <<>>
        /\ \A i \in 1..Len(regs) : regs[i].type = "str")
    => /\ resp.status = 200
       /\ resp.kind = "map"
       /\ DOMAIN resp.map = { Upper(regs[i].chars) : i \in 1..Len(regs) }
       /\ \A key \in DOMAIN resp.map : resp.map[key] = tasks[LastEntry(key)].result

\* ["ab1", "AB1"] with different outcomes: the single key holds the second
C9_Witness ==
    /\ IsPost
    /\ pc = "responded"
    /\ regs = <<StrEntry(<<"a", "b", "1">>), StrEntry(<<"A", "B", "1">>)>>
    /\ tasks[1].result # tasks[2].result
    /\ DOMAIN resp.map = { <<"A", "B", "1">> }
    /\ resp.map[<<"A", "B", "1">>] = tasks[2].result

\* C10: a batch request whose registrations value is a list of 1 to 50
\* entries is answered 200 with the mapping, every value of which is a
\* VehicleRecord or an ErrorResult.
C10_AcceptedBatch200 ==
    (IsPost /\ pc = "responded" /\ NonEmptyList /\ Len(BodyList) <= 50)
    => /\ resp.status = 200
       /\ resp.kind = "map"
       /\ \A key \in DOMAIN resp.map :
             IsVehicleRecord(resp.map[key]) \/ IsErrorResult(resp.map[key])

\* the lookup of the request fails: at transport level, or on the page's content
LookupFails ==
    \/ TransportFailure(script[1][1])
    \/ ContentFault(script[1][1])
    \/ script[1][1].page.fault

\* C11: a single-lookup request is always answered 200 with a JSON body,
\* whatever the lookup ended with: a failed lookup is answered 200 with a body
\* holding just the error key, a successful one 200 with the VehicleRecord.
C11_LookupAlways200 ==
    (IsGet /\ pc = "responded")
    => /\ resp.status = 200
       /\ resp.kind = "json"
       /\ IF LookupFails THEN IsErrorResult(resp.body) ELSE IsVehicleRecord(resp.body)

\* a lookup whose fetch timed out, answered 200 with the error in the body
C11_Witness ==
    /\ IsGet
    /\ pc = "responded"
    /\ script[1][1] = Timeout
    /\ resp.status = 200
    /\ resp.body = ErrorResult(<<"Request timed out">>)

\* the characters that str.upper() changes, with what it changes them into
LowerUpper == { <<"a", "A">>, <<"b", "B">>, <<"x", "X">>, <<"y", "Y">> }

\* u is the upper-cased form of s
IsUpperOf(u, s) ==
    /\ Len(u) = Len(s)
    /\ \A k \in 1..Len(s) :
          \/ <<s[k], u[k]>> \in LowerUpper
          \/ u[k] = s[k] /\ \A p \in LowerUpper : p[1] # s[k]

\* C12: whatever the page holds, a VehicleRecord returned for an identifier
\* has the upper-cased identifier as the value of its first key, reg; and a
\* VehicleRecord of a batch response stands under the key that equals its reg.
C12_RegIsUpperIdentifier ==
    /\ \A i \in 1..Len(tasks) :
          IsVehicleRecord(tasks[i].result) =>
              /\ tasks[i].result.items[1][1] = "reg"
              /\ IsUpperOf(tasks[i].result.items[1][2], regs[i].chars)
    /\ (IsGet /\ pc = "responded" /\ IsVehicleRecord(resp.body)) =>
          IsUpperOf(resp.body.items[1][2], request.reg.chars)
    /\ (IsPost /\ pc = "responded" /\ resp.kind = "map") =>
          \A key \in DOMAIN resp.map :
              IsVehicleRecord(resp.map[key]) => resp.map[key].items[1] = <<"reg", key>>

\* ["ab1", "xy2"] answered with two records, under AB1 and XY2
C12_Witness ==
    /\ IsPost
    /\ pc = "responded"
    /\ regs = <<StrEntry(<<"a", "b", "1">>), StrEntry(<<"x", "y", "2">>)>>
    /\ resp.kind = "map"
    /\ DOMAIN resp.map = { <<"A", "B", "1">>, <<"X", "Y", "2">> }
    /\ \A key \in DOMAIN resp.map :
          IsVehicleRecord(resp.map[key]) /\ resp.map[key].items[1][2] = key

\* the number of commas of a text: one less than its comma-separated parts
Commas(t) == Cardinality({ k \in 1..Len(t) : t[k] = "," })

\* the text up to the end of its fourth comma-separated part
FirstFour(t) ==
    IF Commas(t) < 4 THEN t
    ELSE LET k == CHOOSE k \in 1..Len(t) :
                     t[k] = "," /\ Cardinality({ j \in 1..(k - 1) : t[j] = "," }) = 3
         IN  SubSeq(t, 1, k - 1)

\* the value of the n-th item of a dict
Value(r, n) == r.items[n][2]

\* make and model are the first word and the rest of the first part, its
\* hyphens removed and its ends stripped
MakeAndModel(make, model, part) ==
    LET cleaned == Strip(Remove(part, "-")) IN
    IF \A k \in 1..Len(cleaned) : cleaned[k] # Blank
    THEN make = cleaned /\ model = <<>>
    ELSE /\ make \o <<Blank>> \o model = cleaned
         /\ \A k \in 1..Len(make) : make[k] # Blank

\* C13: the extraction puts every page that parses into exactly one of three
\* classes: no summary node gives the ErrorResult "No data found"; a node whose
\* text has fewer than four comma-separated parts gives "Incomplete data
\* found"; a text of four or more parts gives a VehicleRecord whose fields come
\* from the first four parts, the parts after the fourth changing nothing.
C13_ThreeOutcomes ==
    \A i \in 1..Len(tasks) :
        Finished(tasks[i]) =>
            LET page == script[i][1].page
                res == tasks[i].result
                parts == Split(Strip(page.text), ",")
                cut == Alone(regs[i],
                             [k \in 1..max_retries |->
                                Response(HttpOk, [page EXCEPT !.text = FirstFour(page.text)])])
            IN  /\ ~page.node => res = ErrorResult(<<"No data found">>)
                /\ (page.node /\ Commas(page.text) < 3) =>
                      res = ErrorResult(<<"Incomplete data found">>)
                /\ (page.node /\ Commas(page.text) >= 3) =>
                      /\ IsVehicleRecord(res)
                      /\ MakeAndModel(Value(res, 2), Value(res, 3), parts[1])
                      /\ Value(res, 4) = Strip(parts[2])
                      /\ Value(res, 5) = Strip(Remove(parts[3], "cc"))
                      /\ Value(res, 6) = Strip(parts[4])
                      /\ res = cut.result

\* a text of five parts: the record holds the first four
C13_Witness ==
    /\ IsGet
    /\ pc = "responded"
    /\ script[1][1].page.text = LongText
    /\ Commas(LongText) = 4
    /\ IsVehicleRecord(resp.body)
    /\ Value(resp.body, 4) = <<"Diesel">>
    /\ Value(resp.body, 5) = <<"2000">>
    /\ Value(resp.body, 6) = <<"Auto">>

\* a text node of the page holds the marker
HasMarker(page, marker) ==
    \E k \in 1..Len(page.notes) : \E j \in 1..Len(page.notes[k]) : page.notes[k][j] = marker

\* the keys of a record after the six fixed ones
OptionalKeys(r) == SubSeq(Keys(r), Len(RecordKeys) + 1, Len(r.items))

C15_RetryWrapper ==
    (request = Call /\ wrapped.max_retries = max_retries /\ tasks # <<>>) =>
        LET t == tasks[1]
            calls == wrapped.calls
        IN  /\ t.fetches <= 3
            /\ \A k \in 1..(t.fetches - 1) : calls[k].raised
            /\ t.st = "running" =>
                  /\ t.fetches < 3
                  /\ t.sleeps = t.fetches
                  /\ t.fetches >= 1 => calls[t.fetches].raised
            /\ t.st = "returned" =>
                  /\ t.fetches >= 1
                  /\ ~calls[t.fetches].raised
                  /\ t.result = calls[t.fetches].value
                  /\ t.sleeps = t.fetches - 1
            /\ t.st = "raised" =>
                  /\ t.fetches = 3
                  /\ calls[3].raised
                  /\ t.exc = calls[3].exc
                  /\ t.sleeps = 2

\* three failures, the third unlike the first: the wrapper raised the third
C15_Witness ==
    /\ request = Call
    /\ wrapped.max_retries = max_retries
    /\ tasks # <<>>
    /\ tasks[1].st = "raised"
    /\ tasks[1].fetches = 3
    /\ tasks[1].sleeps = 2
    /\ wrapped.calls[1].exc = "Timeout"
    /\ tasks[1].exc = "ValueError"

\* C16: get_vehicle_data turns the timeout and every other exception into an
\* ErrorResult that it returns, so the wrapper never sees a failure: every
\* lookup that has ended has returned after exactly one fetch, no retry and
\* no sleep.
C16_OneFetchNoSleep ==
    (request # Call) =>
        \A i \in 1..Len(tasks) :
            /\ tasks[i].fetches <= 1
            /\ tasks[i].sleeps = 0
            /\ tasks[i].retries = 0
            /\ Finished(tasks[i]) => tasks[i].st = "returned" /\ tasks[i].fetches = 1

\* a lookup whose first fetch timed out and whose later ones would have succeeded
C16_Witness ==
    /\ IsGet
    /\ pc = "responded"
    /\ script[1] = <<Timeout, Response(HttpOk, PageFull), Response(HttpOk, PageFull)>>
    /\ tasks[1].fetches = 1
    /\ tasks[1].sleeps = 0
    /\ IsErrorResult(tasks[1].result)

\* C18: with max_retries >= 1 a call of the wrapper ends by returning what the
\* last call of the operation returned, or by raising what the max_retries-th
\* call raised: the return None after the loop is not reached.  With
\* max_retries <= 0 the wrapper returns None without calling the operation.
C18_NoneOnlyWithoutAttempts ==
    (request = Call /\ tasks # <<>> /\ Finished(tasks[1])) =>
        LET t == tasks[1]
            calls == wrapped.calls
        IN  IF wrapped.max_retries >= 1
            THEN /\ t.fetches >= 1
                 /\ \/ /\ t.st = "returned"
                       /\ ~calls[t.fetches].raised
                       /\ t.result = calls[t.fetches].value
                    \/ /\ t.st = "raised"
                       /\ t.fetches = wrapped.max_retries
                       /\ calls[t.fetches].raised
                       /\ t.exc = calls[t.fetches].exc
            ELSE /\ t.st = "returned"
                 /\ t.result = None
                 /\ t.fetches = 0

\* max_retries = 0: None is returned and the operation was not called
C18_Witness ==
    /\ request = Call
    /\ wrapped.max_retries = 0
    /\ tasks # <<>>
    /\ tasks[1].st = "returned"
    /\ tasks[1].result = None
    /\ tasks[1].fetches = 0

\* C17: no call of a batch is cancelled: a queued call only ends by running, a
\* running call stays running until it has ended, an ended call keeps its
\* result; the response of a batch is built only when every call of the list
\* has ended and holds a key for every entry; and, the steps of the handler
\* and of its workers being taken as long as one is possible, every call of an
\* accepted batch ends and the batch is answered.
C17_BatchRunsToCompletion ==
    /\ []((IsPost /\ pc = "responded") =>
            /\ Len(tasks) = Len(regs)
            /\ \A i \in 1..Len(tasks) : Finished(tasks[i])
            /\ resp.kind = "map" =>
                  \A i \in 1..Len(regs) : Upper(regs[i].chars) \in DOMAIN resp.map)
    /\ [][IsPost =>
            \A i \in 1..Len(tasks) :
                /\ Len(tasks') = Len(tasks)
                /\ tasks[i].st = "queued" => tasks'[i].st \in {"queued", "running"}
                /\ tasks[i].st = "running" => tasks'[i].st # "queued"
                /\ Finished(tasks[i]) => tasks'[i] = tasks[i]]_vars
    /\ \A i \in 1..MaxList :
          (IsPost /\ i <= Len(tasks)) ~> (i <= Len(tasks) /\ Finished(tasks[i]))
    /\ (IsPost /\ pc = "running") ~> (pc = "responded")

\* a batch of two entries answered, both calls ended, the first with an error
C17_Witness ==
    /\ IsPost
    /\ pc = "responded"
    /\ Len(tasks) = 2
    /\ \A i \in 1..2 : Finished(tasks[i])
    /\ IsErrorResult(tasks[1].result)
    /\ resp.kind = "map"

\* C19: a batch request answered 400 has submitted no call and made no fetch,
\* and calls exist only for a request that has passed every check.
C19_RejectedStartsNothing ==
    IsPost =>
        /\ resp.status = 400 => tasks = <<>> /\ regs = <<>>
        /\ tasks # <<>> => Validation(request.body).accepted /\ resp.status # 400

\* a list of 51 entries answered 400, no call submitted
C19_Witness ==
    /\ IsPost
    /\ pc = "responded"
    /\ Len(BodyList) = MaxBatch + 1
    /\ resp.status = 400
    /\ tasks = <<>>

=============================================================================
